---- MODULE Spec2Model ----
(***************************************************************************)
(* Model of the Arduino solar tracker sketch (Solar_Alt_Az_Simple).        *)
(*                                                                         *)
(* The sketch reads characters from the serial port, accumulates them in   *)
(* a line buffer, and on every line terminator parses six integers with    *)
(* sscanf, chooses the UTC offset with isDST and calls computeSolar.       *)
(*                                                                         *)
(* Four specifications are defined over the same variables:                *)
(*   Spec      the serial loop() of the sketch, one step per character     *)
(*   SpecDST   isDST applied hour by hour through the years 2007..         *)
(*   SpecDoy   dayOfYear applied day by day through the years 1582..       *)
(*   SpecSolar the azimuth / irradiance tail of computeSolar applied to    *)
(*             every elevation and atan2 result of a fixed-point grid      *)
(*                                                                         *)
(* Angles are fixed-point integers, DegScale units per degree: TLA+ has    *)
(* no floating point.  The results of asin and atan2 are inputs of the     *)
(* model (any value of their range); everything the sketch computes with   *)
(* integers is computed here exactly as the C code computes it.            *)
(***************************************************************************)
EXTENDS Integers, Sequences, FiniteSets, TLC

VARIABLES
    input,        \* loop(): static String input, as a sequence of characters
    pending,      \* history: characters received since the last computation
    lastChar,     \* loop(): char c of the iteration just run ("" before any)
    computed,     \* TRUE iff the step just taken ran isDST + computeSolar
    line,         \* the string handed to sscanf in that step
    nassigned,    \* number of fields sscanf assigned in that step
    year, month, day, hour, minute, second,   \* loop(): the six locals
    dst,          \* value returned by isDST
    tz_offset,    \* loop(): int tz_offset
    tableIndex,   \* dayOfYear: the index m - 1 used on daysBeforeMonth
    doy,          \* value returned by dayOfYear
    elevation,    \* computeSolar: float elevation (fixed point)
    atan2_deg,    \* computeSolar: az_rad * RAD_TO_DEG (fixed point)
    azimuth,      \* computeSolar: float azimuth (fixed point)
    irradiance,   \* computeSolar: float irradiance (W/m^2, truncated)
    changes,      \* history: how often isDST changed value so far this year
    ordinal       \* history: calendar days counted since January 1, inclusive

vars == << input, pending, lastChar, computed, line, nassigned,
           year, month, day, hour, minute, second, dst, tz_offset,
           tableIndex, doy, elevation, atan2_deg, azimuth, irradiance,
           changes, ordinal >>

(***************************************************************************)
(* Bounds of the model.                                                    *)
(***************************************************************************)
\* Free-form serial lines are explored up to this many characters.
MaxInput == 3
\* isDST is stepped through the years DstFirstYear .. MaxDstYear.
MaxDstYear == 2034
\* dayOfYear is stepped through the years GregorianStart .. MaxDoyYear.
MaxDoyYear == 2024
\* The change counter of SpecDST saturates here.
MaxChanges == 4
\* Fixed-point units per degree.
DegScale == 2

(***************************************************************************)
(* Program constants.                                                      *)
(***************************************************************************)
\* "Daylight Saving Time logic: accurate from year 2007 onward"
DstFirstYear == 2007
\* "Leap year calculation: valid from 1582 onward"
GregorianStart == 1582
\* int tz_offset = isDST(...) ? -5 : -6; // CDT or CST
CDT == -5
CST == -6

(***************************************************************************)
(* C integer arithmetic: / truncates toward zero, % takes the sign of the  *)
(* dividend.                                                               *)
(***************************************************************************)
CDiv(a, b) == IF a >= 0 THEN a \div b ELSE -((-a) \div b)

CMod(a, b) == a - b * CDiv(a, b)

\* double fmod(x, y) for y > 0 on fixed-point values: x - trunc(x / y) * y.
Fmod(x, y) == IF x >= 0 THEN x % y ELSE -((-x) % y)

(***************************************************************************)
(* dayOfYear                                                               *)
(***************************************************************************)
\* static const int daysBeforeMonth[] (C index i is element i + 1 here).
daysBeforeMonth == << 0, 31, 59, 90, 120, 151, 181, 212, 243, 273, 304, 334 >>

\* daysBeforeMonth[ix]: an index outside 0..11 reads memory outside the
\* array; `junk` is whatever that read yields.
TableRead(ix, junk) ==
    IF ix \in 0..11 THEN daysBeforeMonth[ix + 1] ELSE junk

\* The leap test of dayOfYear without the century exception.
dayOfYearEveryFourth(y, m, d, junk) ==
    TableRead(m - 1, junk) + d
        + (IF m > 2 /\ CMod(y, 4) = 0 THEN 1 ELSE 0)

\* int dayOfYear(int y, int m, int d)
dayOfYear(y, m, d, junk) ==
    LET doy0 == TableRead(m - 1, junk) + d
    IN  IF m > 2 /\ ( (CMod(y, 4) = 0 /\ CMod(y, 100) # 0)
                      \/ CMod(y, 400) = 0 )
        THEN doy0 + 1
        ELSE doy0

(***************************************************************************)
(* isDST                                                                   *)
(***************************************************************************)
\* bool isDST(int year, int month, int day, int hour)
isDST(yr, mo, dy, hr) ==
    IF mo < 3 \/ mo > 11 THEN FALSE
    ELSE IF mo > 3 /\ mo < 11 THEN TRUE
    ELSE
        LET y == IF mo < 3 THEN yr - 1 ELSE yr
            m == IF mo < 3 THEN mo + 12 ELSE mo
            K == CMod(y, 100)
            J == CDiv(y, 100)
            h == CMod(dy + CDiv(13 * (m + 1), 5) + K + CDiv(K, 4)
                         + CDiv(J, 4) + 5 * J, 7)
            weekday == CMod(h + 6, 7)
            secondSunday == 14 - weekday
            firstSunday == 7 - weekday
        IN  IF mo = 3
            THEN (dy > secondSunday) \/ (dy = secondSunday /\ hr >= 2)
            ELSE IF mo = 11
            THEN (dy < firstSunday) \/ (dy = firstSunday /\ hr < 2)
            ELSE FALSE

\* The two offsets exchanged.
TzOffsetSwapped(d) == IF d THEN CST ELSE CDT

\* isDST(...) ? -5 : -6
TzOffset(d) == IF d THEN CDT ELSE CST

(***************************************************************************)
(* computeSolar: azimuth and irradiance                                    *)
(***************************************************************************)
\* Range of asin, in degrees: elevation = elev_rad * RAD_TO_DEG.
ElevationRange == (-90 * DegScale) .. (90 * DegScale)

\* Range of atan2, in degrees: az_rad * RAD_TO_DEG.
Atan2Range == (-180 * DegScale) .. (180 * DegScale)

\* The azimuth without the shift to North.
AzimuthNoShift(a) == Fmod(a, 360 * DegScale)

\* float azimuth = fmod((az_rad * RAD_TO_DEG + 180.0), 360.0);
AzimuthFromAtan2(a) == Fmod(a + 180 * DegScale, 360 * DegScale)

\* 1000 * cos(zenith_rad) for zenith = 90 - elevation, i.e. 1000 * sin of
\* the elevation, 0 < e <= 90 degrees, by Bhaskara's rational approximation
\* sin x = 4x(180 - x) / (40500 - x(180 - x)), x in degrees.
CosZenith1000(e) ==
    LET P == e * (180 * DegScale - e)
    IN  (4000 * P) \div (40500 * DegScale * DegScale - P)

\* 1098.0 * cos(zenith_rad) * exp(-0.059 / cos(zenith_rad)), truncated to
\* whole W/m^2, with exp(-t) taken as 1 / (1 + t).
Haurwitz(e) ==
    LET c == CosZenith1000(e)
    IN  (1098 * c * c) \div (1000 * (c + 59))

\* getIrradiance without the horizon test: below the horizon cos(zenith)
\* is negative and so is the product.
getIrradianceNoGuard(elevation_deg) ==
    IF elevation_deg > 0 THEN Haurwitz(elevation_deg)
    ELSE -Haurwitz(-elevation_deg)

\* float getIrradiance(float elevation_deg)
getIrradiance(elevation_deg) ==
    IF elevation_deg <= 0 THEN 0 ELSE Haurwitz(elevation_deg)

(***************************************************************************)
(* sscanf(input.c_str(), "%d,%d,%d,%d,%d,%d", ...)                         *)
(***************************************************************************)
LF == "LF"
CR == "CR"
Eol == { LF, CR }
DigitSeq == << "0", "1", "2", "3", "4", "5", "6", "7", "8", "9" >>
Digits == { DigitSeq[i] : i \in 1..10 }
DigitVal(c) == (CHOOSE i \in 1..10 : DigitSeq[i] = c) - 1

\* %d skips leading white space.
RECURSIVE SkipSpace(_, _)
SkipSpace(s, p) ==
    IF p <= Len(s) /\ s[p] = " " THEN SkipSpace(s, p + 1) ELSE p

\* The digits of a %d from position p on, acc the value so far.
RECURSIVE ScanDigits(_, _, _)
ScanDigits(s, p, acc) ==
    IF p <= Len(s) /\ s[p] \in Digits
    THEN ScanDigits(s, p + 1, 10 * acc + DigitVal(s[p]))
    ELSE [val |-> acc, pos |-> p]

\* One %d conversion at position p: white space, an optional sign, at
\* least one digit.  ok is FALSE on a matching failure or end of input.
ScanInt(s, p) ==
    LET p1 == SkipSpace(s, p)
        signed == p1 <= Len(s) /\ s[p1] \in { "-", "+" }
        p2 == IF signed THEN p1 + 1 ELSE p1
        r == ScanDigits(s, p2, 0)
    IN  IF p2 <= Len(s) /\ s[p2] \in Digits
        THEN [ok |-> TRUE,
              val |-> IF signed /\ s[p1] = "-" THEN -r.val ELSE r.val,
              pos |-> r.pos]
        ELSE [ok |-> FALSE, val |-> 0, pos |-> p]

\* The values sscanf assigns, in order: conversion k is followed by a
\* literal ',' for k < 6; scanning stops at the first failure.
RECURSIVE ScanFields(_, _, _)
ScanFields(s, p, got) ==
    LET r == ScanInt(s, p)
    IN  IF ~r.ok THEN got
        ELSE LET got1 == Append(got, r.val)
             IN  IF Len(got1) = 6 THEN got1
                 ELSE IF r.pos <= Len(s) /\ s[r.pos] = ","
                 THEN ScanFields(s, r.pos + 1, got1)
                 ELSE got1

Sscanf(s) == ScanFields(s, 1, << >>)

(***************************************************************************)
(* The serial loop                                                         *)
(***************************************************************************)
\* Serial lines the model follows to their end, whatever their length.
Lines ==
    { << "2", "0", "2", "5", ",", "6", ",", "1", "3", ",", "2", "2", ",",
         "1", "4", ",", "0" >>,
      << "2", "0", "2", "5", ",", "1", ",", "1", "5", ",", "1", "2", ",",
         "0", ",", "0" >>,
      << "2", "0", "2", "5", ",", "3", ",", "9", ",", "2", ",", "0", ",",
         "0" >>,
      << "2", "0", "2", "5", ",", "1", "3", ",", "1", ",", "0", ",", "0",
         ",", "0" >> }

\* Characters of free-form lines.
FreeChars == { "3", ",", "x" }

\* Characters Serial.read() returns in the model.
Chars == FreeChars \cup Eol \cup UNION { { l[i] : i \in 1..Len(l) } : l \in Lines }

IsPrefix(s, t) == Len(s) <= Len(t) /\ SubSeq(t, 1, Len(s)) = s

\* The buffers the model lets the serial port build.
Admitted(s) ==
    \/ Len(s) <= MaxInput /\ \A i \in 1..Len(s) : s[i] \in FreeChars
    \/ \E l \in Lines : IsPrefix(s, l)

\* Values an uninitialized int local may hold.
Indeterminate == { 0, 13 }

\* Values a read outside daysBeforeMonth may yield.
OutOfBoundsRead == { 0, 365 }

\* Results of asin and atan2 the loop model draws from.
LoopElevations == { -45 * DegScale, 0, 45 * DegScale }
LoopAtan2 == { -180 * DegScale, 90 * DegScale }

\* The test on every line terminator, without the length test.
LineReadyAlways(buf) == TRUE

\* if (input.length() > 0)
LineReady(buf) == Len(buf) > 0

\* State of the locals when the iteration ran no computation.
NoComputation ==
    /\ computed' = FALSE
    /\ line' = << >>
    /\ nassigned' = 0
    /\ year' = 0 /\ month' = 0 /\ day' = 0
    /\ hour' = 0 /\ minute' = 0 /\ second' = 0
    /\ dst' = FALSE
    /\ tz_offset' = 0
    /\ tableIndex' = 0
    /\ doy' = 0
    /\ elevation' = 0 /\ atan2_deg' = 0 /\ azimuth' = 0 /\ irradiance' = 0

\* computeSolar(latitude, longitude, year, ..., tz_offset): asin yields e,
\* atan2 yields a, a read outside the table yields junk.
computeSolar(yr, mo, dy, e, a, junk) ==
    /\ tableIndex' = mo - 1
    /\ doy' = dayOfYear(yr, mo, dy, junk)
    /\ elevation' = e
    /\ atan2_deg' = a
    /\ azimuth' = AzimuthFromAtan2(a)
    /\ irradiance' = getIrradiance(e)

\* loop(): c is '\n' or '\r' and the buffer holds a line.  The fields
\* sscanf does not assign keep the indeterminate values g of the
\* uninitialized locals.
ReceiveEolLine ==
    /\ LineReady(input)
    /\ LET got == Sscanf(input)
       IN  \E c \in Eol, g \in [(Len(got) + 1)..6 -> Indeterminate],
              e \in LoopElevations, a \in LoopAtan2 :
            LET f == [k \in 1..6 |-> IF k <= Len(got) THEN got[k] ELSE g[k]]
                d == isDST(f[1], f[2], f[3], f[4])
            IN  \E junk \in (IF f[2] - 1 \in 0..11 THEN { 0 }
                                                   ELSE OutOfBoundsRead) :
                    /\ lastChar' = c
                    /\ computed' = TRUE
                    /\ line' = input
                    /\ nassigned' = Len(got)
                    /\ year' = f[1] /\ month' = f[2] /\ day' = f[3]
                    /\ hour' = f[4] /\ minute' = f[5] /\ second' = f[6]
                    /\ dst' = d
                    /\ tz_offset' = TzOffset(d)
                    /\ computeSolar(f[1], f[2], f[3], e, a, junk)
                    /\ input' = << >>
                    /\ pending' = << >>
                    /\ UNCHANGED << changes, ordinal >>

\* loop(): c is '\n' or '\r' and the buffer is empty.
ReceiveEolEmpty ==
    \E c \in Eol :
        /\ ~LineReady(input)
        /\ lastChar' = c
        /\ NoComputation
        /\ UNCHANGED << input, pending, changes, ordinal >>

\* loop(): any other character is appended.
ReceiveChar ==
    \E c \in Chars \ Eol :
        /\ Admitted(Append(input, c))
        /\ lastChar' = c
        /\ input' = Append(input, c)
        /\ pending' = Append(pending, c)
        /\ NoComputation
        /\ UNCHANGED << changes, ordinal >>

\* static String input = ""; nothing computed yet.
Init ==
    /\ input = << >>
    /\ pending = << >>
    /\ lastChar = ""
    /\ computed = FALSE
    /\ line = << >>
    /\ nassigned = 0
    /\ year = 0 /\ month = 0 /\ day = 0
    /\ hour = 0 /\ minute = 0 /\ second = 0
    /\ dst = FALSE
    /\ tz_offset = 0
    /\ tableIndex = 0
    /\ doy = 0
    /\ elevation = 0 /\ atan2_deg = 0 /\ azimuth = 0 /\ irradiance = 0
    /\ changes = 0
    /\ ordinal = 0

Next ==
    \/ ReceiveEolLine
    \/ ReceiveEolEmpty
    \/ ReceiveChar

Spec == Init /\ [][Next]_vars

(***************************************************************************)
(* The Gregorian calendar, as reference for the claims about dayOfYear and *)
(* isDST: leap years, month lengths, and the weekday counted in days from  *)
(* Monday 0001-01-01.                                                      *)
(***************************************************************************)
IsLeapYear(y) == (y % 4 = 0 /\ y % 100 # 0) \/ y % 400 = 0

DaysInMonth(y, m) ==
    IF m = 2 THEN (IF IsLeapYear(y) THEN 29 ELSE 28)
    ELSE IF m \in { 4, 6, 9, 11 } THEN 30
    ELSE 31

RECURSIVE DaysBeforeMonth(_, _)
DaysBeforeMonth(y, m) ==
    IF m = 1 THEN 0 ELSE DaysBeforeMonth(y, m - 1) + DaysInMonth(y, m - 1)

\* Days from 0001-01-01 to December 31 of year y - 1, inclusive.
DaysBeforeYear(y) ==
    365 * (y - 1) + (y - 1) \div 4 - (y - 1) \div 100 + (y - 1) \div 400

\* 0 = Sunday .. 6 = Saturday.
Weekday(y, m, d) == (DaysBeforeYear(y) + DaysBeforeMonth(y, m) + d) % 7

SecondSundayOfMarch(y) == CHOOSE d \in 8..14 : Weekday(y, 3, d) = 0

FirstSundayOfNovember(y) == CHOOSE d \in 1..7 : Weekday(y, 11, d) = 0

(***************************************************************************)
(* SpecDST: isDST applied at every hour of a year, in chronological order. *)
(***************************************************************************)
Idle ==
    /\ input = << >>
    /\ pending = << >>
    /\ lastChar = ""
    /\ line = << >>
    /\ nassigned = 0

InitDST ==
    /\ Idle
    /\ year \in DstFirstYear..MaxDstYear
    /\ month = 1 /\ day = 1 /\ hour = 0 /\ minute = 0 /\ second = 0
    /\ computed = TRUE
    /\ dst = isDST(year, 1, 1, 0)
    /\ tz_offset = TzOffset(dst)
    /\ changes = 0
    /\ tableIndex = 0 /\ doy = 0 /\ ordinal = 0
    /\ elevation = 0 /\ atan2_deg = 0 /\ azimuth = 0 /\ irradiance = 0

\* The next hour of the year, and isDST there.
Tick ==
    /\ ~(month = 12 /\ day = 31 /\ hour = 23)
    /\ LET lastHour == hour = 23
           lastDay == day = DaysInMonth(year, month)
           h1 == IF lastHour THEN 0 ELSE hour + 1
           d1 == IF ~lastHour THEN day ELSE IF lastDay THEN 1 ELSE day + 1
           m1 == IF lastHour /\ lastDay THEN month + 1 ELSE month
           r == isDST(year, m1, d1, h1)
       IN  /\ hour' = h1 /\ day' = d1 /\ month' = m1
           /\ dst' = r
           /\ tz_offset' = TzOffset(r)
           /\ changes' = IF r # dst /\ changes < MaxChanges
                         THEN changes + 1 ELSE changes
    /\ UNCHANGED << input, pending, lastChar, computed, line, nassigned,
                    year, minute, second, tableIndex, doy, elevation,
                    atan2_deg, azimuth, irradiance, ordinal >>

NextDST == Tick

SpecDST == InitDST /\ [][NextDST]_vars

(***************************************************************************)
(* SpecDoy: dayOfYear applied to every date of a year, in order.           *)
(***************************************************************************)
InitDoy ==
    /\ Idle
    /\ year \in GregorianStart..MaxDoyYear
    /\ month = 1 /\ day = 1 /\ hour = 0 /\ minute = 0 /\ second = 0
    /\ computed = TRUE
    /\ tableIndex = 0
    /\ doy = dayOfYear(year, 1, 1, 0)
    /\ ordinal = 1
    /\ dst = FALSE /\ tz_offset = 0 /\ changes = 0
    /\ elevation = 0 /\ atan2_deg = 0 /\ azimuth = 0 /\ irradiance = 0

\* The next date of the year, and dayOfYear there.
NextDay ==
    /\ ~(month = 12 /\ day = 31)
    /\ LET lastDay == day = DaysInMonth(year, month)
           d1 == IF lastDay THEN 1 ELSE day + 1
           m1 == IF lastDay THEN month + 1 ELSE month
       IN  /\ day' = d1 /\ month' = m1
           /\ tableIndex' = m1 - 1
           /\ doy' = dayOfYear(year, m1, d1, 0)
           /\ ordinal' = ordinal + 1
    /\ UNCHANGED << input, pending, lastChar, computed, line, nassigned,
                    year, hour, minute, second, dst, tz_offset, elevation,
                    atan2_deg, azimuth, irradiance, changes >>

NextDoy == NextDay

SpecDoy == InitDoy /\ [][NextDoy]_vars

(***************************************************************************)
(* SpecSolar: the end of computeSolar on every elevation and every atan2   *)
(* result of the grid.                                                     *)
(***************************************************************************)
InitSolar ==
    /\ Idle
    /\ year = 0 /\ month = 0 /\ day = 0
    /\ hour = 0 /\ minute = 0 /\ second = 0
    /\ computed = FALSE
    /\ elevation \in ElevationRange
    /\ atan2_deg \in Atan2Range
    /\ azimuth = 0 /\ irradiance = 0
    /\ tableIndex = 0 /\ doy = 0 /\ ordinal = 0
    /\ dst = FALSE /\ tz_offset = 0 /\ changes = 0

\* computeSolar from "float azimuth = ..." to "float irradiance = ...".
SolarOutputs ==
    /\ ~computed
    /\ computed' = TRUE
    /\ azimuth' = AzimuthFromAtan2(atan2_deg)
    /\ irradiance' = getIrradiance(elevation)
    /\ UNCHANGED << input, pending, lastChar, line, nassigned, year, month,
                    day, hour, minute, second, dst, tz_offset, tableIndex,
                    doy, elevation, atan2_deg, changes, ordinal >>

NextSolar == SolarOutputs

SpecSolar == InitSolar /\ [][NextSolar]_vars

(***************************************************************************)
(* Claims                                                                  *)
(***************************************************************************)
\* C1: in March of every year from 2007 on, isDST is true exactly when the
\* day is after the second Sunday of March, or is that Sunday and the hour
\* is at least 2.
C1_MarchRule ==
    month = 3 =>
        (dst <=> \/ day > SecondSundayOfMarch(year)
                 \/ day = SecondSundayOfMarch(year) /\ hour >= 2)

\* C2: in November of every year from 2007 on, isDST is true exactly when
\* the day is before the first Sunday of November, or is that Sunday and
\* the hour is below 2.
C2_NovemberRule ==
    month = 11 =>
        (dst <=> \/ day < FirstSundayOfNovember(year)
                 \/ day = FirstSundayOfNovember(year) /\ hour < 2)

\* C3: for every line loop() processes, tz_offset is -5 when isDST is true
\* of the line's year, month, day and hour, and -6 when it is false.
C3_OffsetFollowsDST ==
    computed =>
        tz_offset = (IF isDST(year, month, day, hour) THEN CDT ELSE CST)

\* C3 witness: a fully parsed June line was processed with offset -5.
C3_Witness ==
    computed /\ nassigned = 6 /\ month = 6 /\ dst /\ tz_offset = CDT

\* C4: for every valid date from 1582 on, dayOfYear is the number of
\* calendar days from January 1 through the date; December 31 is day 366
\* of a leap year and day 365 of any other year.
C4_DayOfYear ==
    /\ doy = ordinal
    /\ (month = 1 /\ day = 1) => doy = 1
    /\ (month = 12 /\ day = 31) => doy = (IF IsLeapYear(year) THEN 366 ELSE 365)

\* C4 witness: December 31 of 1900, a century year that is not leap.
C4_Witness ==
    year = 1900 /\ month = 12 /\ day = 31 /\ doy = 365 /\ ordinal = 365

C6_DarkBelowHorizon ==
    (computed /\ elevation <= 0) => irradiance = 0

\* C6 witness: an elevation just below the horizon, irradiance 0, and (in
\* the same grid) the formula's value above the horizon is not 0.
C6_Witness ==
    /\ computed /\ elevation = -1 /\ irradiance = 0
    /\ getIrradiance(45 * DegScale) > 0

\* C7: six parsed integers never make dayOfYear index daysBeforeMonth
\* outside 0..11.
C7_IndexInRange ==
    (computed /\ nassigned = 6) => tableIndex \in 0..11

\* C9: when sscanf assigns fewer than six fields, the fields it did not
\* assign are 0 in the calls of isDST and computeSolar.
C9_UnassignedAreZero ==
    (computed /\ nassigned < 6) =>
        LET field == << year, month, day, hour, minute, second >>
        IN  \A k \in (nassigned + 1)..6 : field[k] = 0

\* C8: through the hours of a year isDST changes exactly twice: false
\* until one switch-on in March, true until one switch-off in November,
\* false afterwards.
C8_TwoChanges ==
    /\ changes <= 2
    /\ changes = 0 => (~dst /\ month <= 3)
    /\ changes = 1 => (dst /\ month \in 3..11)
    /\ changes = 2 => (~dst /\ month >= 11)
    /\ (month = 12 /\ day = 31 /\ hour = 23) => changes = 2

\* C10: a line terminator received while the buffer is non-empty runs one
\* computation on exactly the characters received since the previous one
\* and leaves the buffer empty; a terminator received while the buffer is
\* empty, and any other character, runs none.
C10_OneComputationPerLine ==
    [][ /\ (lastChar' \in Eol /\ Len(input) > 0) =>
              (computed' /\ line' = pending /\ input' = << >>)
        /\ (lastChar' \in Eol /\ Len(input) = 0) => ~computed'
        /\ (lastChar' \notin Eol) => (~computed' /\ input' = Append(input, lastChar'))
      ]_vars

\* C10 witness: a carriage return ended a line of several characters and
\* the computation ran on it.
C10_Witness ==
    computed /\ lastChar = CR /\ Len(line) > 1 /\ input = << >>

====
